---- MODULE Spec2Model ----
(***************************************************************************)
(* Model of app/models.py: one Room with its Players, its Game and the     *)
(* Votes of that Game, held in a SQLAlchemy session (players, game, votes) *)
(* over a committed store (db).                                            *)
(*                                                                         *)
(* Python values: a nullable column is a sequence of length at most one,   *)
(* <<>> for None and <<x>> for the value x.  A Player's primary key is its *)
(* position in players, a Vote's its position in votes.                    *)
(***************************************************************************)
EXTENDS Integers, Sequences, FiniteSets, TLC

VARIABLES players, game, votes, db, ret

vars == <<players, game, votes, db, ret>>

\* ---------------------------------------------------------------- bounds
\* Players in the room, Votes in the table
MaxPlayers == 2
MaxVotes == 2
\* seats offered where the seat range matters: 0 .. LowSeat, and the last
\* seat up to OverSeat seats beyond it
LowSeat == 2
OverSeat == 1
\* seats offered where the right to vote is set: 0 .. MaxRoomSeat
MaxRoomSeat == 2
\* vote_for of a Vote to validate: -MinVoteFor .. MaxVoteFor
MaxVoteFor == 26
MinVoteFor == 3
\* readings of datetime.now(): 1 .. MaxTime
MaxTime == 1
\* calls in a row that are counted
MaxCalls == 2

\* ------------------------------------------------------- program constants
\* range(1, 13): first seat and the (exclusive) stop of the seat range
SeatStart == 1
SeatStop == 13
\* Game.end: the value current_round is set to
EndedRound == -1

\* ------------------------------------------------------------ Python values
None == <<>>
Some(x) == <<x>>

\* truth value of a nullable Boolean column: None and False are falsy
TruthyBool(b) == b # None /\ b[1]
\* truth value of a nullable Integer column: None and 0 are falsy
TruthyInt(n) == n # None /\ n[1] # 0

\* Game.current_round holds None, a str (set_round) or the int -1 (end)
PyNone == [kind |-> "None", s |-> "", n |-> 0]
PyStr(x) == [kind |-> "str", s |-> x, n |-> 0]
PyInt(k) == [kind |-> "int", s |-> "", n |-> k]

\* a returned value, or the exception that ended the call
Return(v) == [ok |-> TRUE, val |-> v]
Raise(e) == [ok |-> FALSE, val |-> e]

\* ------------------------------------------------------------------- rows
\* Player(...) as the column defaults leave it
Player(is_host) ==
    [is_host |-> is_host, seat |-> None, is_dead |-> FALSE, capable_for_vote |-> FALSE]

\* Game(...) as the column defaults leave it
Game ==
    [current_round |-> PyNone, is_active |-> TRUE, finish_time |-> None]

Vote(player_id, vote_for, round) ==
    [game_id |-> 1, player_id |-> player_id, vote_for |-> vote_for, round |-> round]

\* ------------------------------------------------------- Room: derived views
\* Players are named by their position in the list ps (Room.players)

\* host_from without the else branch: the loop falls through and returns None
RECURSIVE host_from_no_else(_, _)
host_from_no_else(ps, i) ==
    IF i > Len(ps) THEN Return(None)
    ELSE IF TruthyBool(ps[i].is_host) THEN Return(i)
         ELSE host_from_no_else(ps, i + 1)

\* Room.host: the for loop from Player i on, its else branch raising
RECURSIVE host_from(_, _)
host_from(ps, i) ==
    IF i > Len(ps) THEN Raise("ValueError: No host find")
    ELSE IF TruthyBool(ps[i].is_host) THEN Return(i)
         ELSE host_from(ps, i + 1)

host(ps) == host_from(ps, 1)

\* normal_from without the is_host test: every Player is kept
RECURSIVE normal_from_all(_, _)
normal_from_all(ps, i) ==
    IF i > Len(ps) THEN <<>> ELSE <<i>> \o normal_from_all(ps, i + 1)

\* Room.normal_players: the loop from Player i on
RECURSIVE normal_from(_, _)
normal_from(ps, i) ==
    IF i > Len(ps) THEN <<>>
    ELSE IF ~TruthyBool(ps[i].is_host) THEN <<i>> \o normal_from(ps, i + 1)
         ELSE normal_from(ps, i + 1)

normal_players(ps) == normal_from(ps, 1)

\* seats -= set([p.seat]) for the Players of ids, one after the other
RECURSIVE remove_seats(_, _, _)
remove_seats(ps, ids, seats) ==
    IF ids = <<>> THEN seats
    ELSE LET p == ps[Head(ids)]
         IN remove_seats(ps, Tail(ids),
                IF TruthyInt(p.seat) THEN seats \ {p.seat[1]} ELSE seats)

available_seats(ps) ==
    remove_seats(ps, normal_players(ps), SeatStart .. (SeatStop - 1))

\* Room.seated_players: the loop from Player i on
RECURSIVE seated_from(_, _)
seated_from(ps, i) ==
    IF i > Len(ps) THEN <<>>
    ELSE IF ~TruthyBool(ps[i].is_host) /\ TruthyInt(ps[i].seat)
         THEN <<i>> \o seated_from(ps, i + 1)
         ELSE seated_from(ps, i + 1)

seated_players(ps) == seated_from(ps, 1)

\* Room has no attribute seats: evaluating self.seats raises
is_full(ps) == Raise("AttributeError: 'Room' object has no attribute 'seats'")

\* alive_of without the is_dead test: the dead are kept
alive_of_with_dead(ps, ids) == ids

\* Room.survivals: the loop over the Players of ids
RECURSIVE alive_of(_, _)
alive_of(ps, ids) ==
    IF ids = <<>> THEN <<>>
    ELSE IF ~ps[Head(ids)].is_dead THEN <<Head(ids)>> \o alive_of(ps, Tail(ids))
         ELSE alive_of(ps, Tail(ids))

survivals(ps) == alive_of(ps, seated_players(ps))

\* Player.is_seated
is_seated(p) == p.seat # None

\* ---------------------------------------------------------------- session
RoundNames == {"round1", "night1"}

\* the rows as the session holds them, and db.session.commit()
Session(ps, g, vs) == [players |-> ps, game |-> g, votes |-> vs]

\* what the last call was and how it ended; n counts the calls in a row of
\* the same operation with the same argument, up to MaxCalls
Ret(op, arg, r) == [op |-> op, arg |-> arg, ok |-> r.ok, val |-> r.val, n |-> 1]

\* after a write of the caller itself: no call of the model is the last one
Called == Ret("", None, Return(None))

Again(op, arg) ==
    IF ret.op = op /\ ret.arg = arg
    THEN IF ret.n < MaxCalls THEN ret.n + 1 ELSE MaxCalls
    ELSE 1

\* --------------------------------------------------- the caller's own writes
\* The web layer creates rows and assigns columns through the ORM; commit
\* says whether it commits right after the write.

\* db.session.add(Player(is_host=h))
Join(h, commit) ==
    /\ Len(players) < MaxPlayers
    /\ players' = Append(players, Player(h))
    /\ db' = IF commit THEN Session(players', game, votes) ELSE db
    /\ ret' = Called
    /\ UNCHANGED <<game, votes>>

\* player.seat = s
SetSeat(i, s, commit) ==
    /\ i \in 1 .. Len(players)
    /\ players' = [players EXCEPT ![i].seat = s]
    /\ db' = IF commit THEN Session(players', game, votes) ELSE db
    /\ ret' = Called
    /\ UNCHANGED <<game, votes>>

\* player.is_dead = True
Die(i, commit) ==
    /\ i \in 1 .. Len(players)
    /\ ~players[i].is_dead
    /\ players' = [players EXCEPT ![i].is_dead = TRUE]
    /\ db' = IF commit THEN Session(players', game, votes) ELSE db
    /\ ret' = Called
    /\ UNCHANGED <<game, votes>>

\* db.session.add(Vote(player_id=p, vote_for=v, round=r))
CastVote(p, v, r, commit) ==
    /\ Len(votes) < MaxVotes
    /\ p \in 1 .. Len(players)
    /\ votes' = Append(votes, Vote(p, v, r))
    /\ db' = IF commit THEN Session(players, game, votes') ELSE db
    /\ ret' = Called
    /\ UNCHANGED <<players, game>>

\* db.session.commit()
Commit ==
    /\ db # Session(players, game, votes)
    /\ db' = Session(players, game, votes)
    /\ ret' = Called
    /\ UNCHANGED <<players, game, votes>>

\* ------------------------------------------------------------- Room: reads
GetHost ==
    /\ ret' = Ret("host", None, host(players))
    /\ UNCHANGED <<players, game, votes, db>>

GetAvailableSeats ==
    /\ ret' = Ret("available_seats", None, Return(available_seats(players)))
    /\ UNCHANGED <<players, game, votes, db>>

GetIsFull ==
    /\ ret' = Ret("is_full", None, is_full(players))
    /\ UNCHANGED <<players, game, votes, db>>

\* ---------------------------------------------------------- Room: mutators
\* for p in ids: p.capable_for_vote = b
RECURSIVE set_capable(_, _, _)
set_capable(ps, ids, b) ==
    IF ids = <<>> THEN ps
    ELSE set_capable([ps EXCEPT ![Head(ids)].capable_for_vote = b], Tail(ids), b)

allow_votes ==
    /\ players' = set_capable(players, survivals(players), TRUE)
    /\ db' = Session(players', game, votes)
    /\ ret' = Ret("allow_votes", None, Return(None))
    /\ UNCHANGED <<game, votes>>

disable_votes ==
    /\ players' = set_capable(players, survivals(players), FALSE)
    /\ db' = Session(players', game, votes)
    /\ ret' = Ret("disable_votes", None, Return(None))
    /\ UNCHANGED <<game, votes>>

\* set_round without its commit
set_round_uncommitted(round_name) ==
    /\ game' = [game EXCEPT !.current_round = PyStr(round_name)]
    /\ ret' = Ret("set_round", round_name, Return(None))
    /\ UNCHANGED <<players, votes, db>>

\* set_round taking the Game back into play
set_round_reactivating(round_name) ==
    /\ game' = [game EXCEPT !.current_round = PyStr(round_name), !.is_active = TRUE]
    /\ db' = Session(players, game', votes)
    /\ ret' = Ret("set_round", round_name, Return(None))
    /\ UNCHANGED <<players, votes>>

set_round(round_name) ==
    /\ game' = [game EXCEPT !.current_round = PyStr(round_name)]
    /\ db' = Session(players, game', votes)
    /\ ret' = Ret("set_round", round_name, Return(None))
    /\ UNCHANGED <<players, votes>>

\* -------------------------------------------------------------------- Game
\* Game.end, datetime.now() reading t
end(t) ==
    /\ game' = [game EXCEPT !.finish_time = Some(t),
                            !.is_active = FALSE,
                            !.current_round = PyInt(EndedRound)]
    /\ ret' = Ret("end", None, Return(None))
    /\ UNCHANGED <<players, votes, db>>

\* Game.status
status(g) ==
    LET r == g.current_round
        truthy == \/ r.kind = "str" /\ r.s # ""
                  \/ r.kind = "int" /\ r.n # 0
    IN IF truthy THEN r ELSE PyStr("awaiting")

\* -------------------------------------------------------------------- Vote
\* validated with the upper test off by one
validated_above_13(v) == IF v <= 0 \/ v > 13 THEN 0 ELSE v

\* validated wrapping a seat number beyond the table around it
validated_wrapping(v) == IF v <= 0 THEN 0 ELSE IF v >= 13 THEN v - 12 ELSE v

\* the value validate leaves in vote_for, for an int vote_for
validated(v) == IF v <= 0 \/ v >= 13 THEN 0 ELSE v

\* Vote.validate on the Vote with id k; comparing None with 0 raises
validate(k) ==
    /\ k \in 1 .. Len(votes)
    /\ IF votes[k].vote_for = None
       THEN /\ votes' = votes
            /\ ret' = [Ret("validate", k, Raise("TypeError")) EXCEPT !.n = Again("validate", k)]
       ELSE /\ votes' = [votes EXCEPT ![k].vote_for = Some(validated(votes[k].vote_for[1]))]
            /\ ret' = [Ret("validate", k, Return(None)) EXCEPT !.n = Again("validate", k)]
    /\ UNCHANGED <<players, game, db>>

\* vote_from without the filter on the id: the seat of the first Player row
vote_from_unfiltered(ps, v) == ps[1].seat

\* Vote.vote_from: Player.query.filter_by(id=self.player_id).first().seat
vote_from(ps, v) == ps[v.player_id].seat

\* ------------------------------------------------------- Room: vote results
\* p.votes.filter_by(round=round_name): the ids of the matching Votes
votes_of(vs, p, round_name) ==
    {k \in 1 .. Len(vs) : vs[k].player_id = p /\ vs[k].round = round_name}

\* .first() has no ORDER BY: any matching row may come first, 0 standing
\* for the None of an empty result
first_of(vs, p, round_name) ==
    IF votes_of(vs, p, round_name) = {} THEN {0} ELSE votes_of(vs, p, round_name)

\* one choice of first row for each of the Players 1 .. n
RECURSIVE firsts_upto(_, _, _)
firsts_upto(vs, n, round_name) ==
    IF n = 0 THEN {<<>>}
    ELSE {Append(f, k) : f \in firsts_upto(vs, n - 1, round_name),
                         k \in first_of(vs, n, round_name)}

Firsts(ps, vs, round_name) == firsts_upto(vs, Len(ps), round_name)

\* results_of skipping a Player whose vote is None
RECURSIVE results_of_skipping(_, _, _, _)
results_of_skipping(ps, vs, ids, first) ==
    IF ids = <<>> THEN Return(<<>>)
    ELSE LET k == first[Head(ids)]
             rest == results_of_skipping(ps, vs, Tail(ids), first)
         IN IF k = 0 THEN rest
            ELSE Return(<<[vote_from |-> ps[vs[k].player_id].seat,
                           vote_for |-> vs[k].vote_for]>> \o rest.val)

\* the loop of view_vote_results over the Players of ids; vote.vote_from
\* on a vote that is None raises
RECURSIVE results_of(_, _, _, _)
results_of(ps, vs, ids, first) ==
    IF ids = <<>> THEN Return(<<>>)
    ELSE LET k == first[Head(ids)]
         IN IF k = 0
            THEN Raise("AttributeError: 'NoneType' object has no attribute 'vote_from'")
            ELSE LET rest == results_of(ps, vs, Tail(ids), first)
                     row == [vote_from |-> vote_from(ps, vs[k]),
                             vote_for |-> vs[k].vote_for]
                 IN IF rest.ok THEN Return(<<row>> \o rest.val) ELSE rest

view_vote_results(round_name) ==
    /\ \E first \in Firsts(players, votes, round_name) :
          ret' = Ret("view_vote_results", round_name,
                     results_of(players, votes, seated_players(players), first))
    /\ UNCHANGED <<players, game, votes, db>>

\* ---------------------------------------------------------- specifications
\* a new Room: no Player yet, the Game as created, all of it committed
Init ==
    /\ players = <<>>
    /\ game = Game
    /\ votes = <<>>
    /\ db = Session(players, game, votes)
    /\ ret = Called

HostValues == {None, Some(FALSE), Some(TRUE)}
\* seats offered to SetSeat: 0, the first seats, the last seat and beyond it
SeatValues ==
    {None} \cup {Some(n) : n \in 0 .. LowSeat}
           \cup {Some(n) : n \in (SeatStop - 1) .. (SeatStop - 1 + OverSeat)}
RoomSeatValues == {None} \cup {Some(n) : n \in 0 .. MaxRoomSeat}
\* seats offered where the votes are read: none, the first and the last seat
TableSeatValues == {None, Some(SeatStart), Some(SeatStop - 1)}
VoteValues == {Some(n) : n \in (0 - MinVoteFor) .. MaxVoteFor}

\* Players join and take seats; the caller reads the derived views
NextSeats ==
    \/ \E h \in HostValues : Join(h, TRUE)
    \/ \E i \in 1 .. MaxPlayers, s \in SeatValues : SetSeat(i, s, TRUE)
    \/ GetHost
    \/ GetAvailableSeats
    \/ GetIsFull

SpecSeats == Init /\ [][NextSeats]_vars

\* ------------------------------------------------------------ seat properties
\* the Players of the room that are hosts (is_host true)
Hosts == {i \in 1 .. Len(players) : players[i].is_host = Some(TRUE)}

\* the seats held by normal Players that have a seat
HeldSeats ==
    {players[i].seat[1] :
        i \in {j \in 1 .. Len(players) :
                 /\ players[j].is_host # Some(TRUE)
                 /\ players[j].seat # None
                 /\ players[j].seat[1] # 0}}

AllSeats == SeatStart .. (SeatStop - 1)

\* C1: reading Room.host of a room without a host Player (an empty room
\* included) ends in the "no host" error and returns no None; with a host
\* Player it returns the first Player of the list whose is_host is true.
C1_HostOrError ==
    ret.op = "host" =>
        IF Hosts = {}
        THEN ~ret.ok /\ ret.val = "ValueError: No host find"
        ELSE ret.ok /\ ret.val \in Hosts /\ \A j \in Hosts : ret.val <= j

C1_Witness ==
    /\ ret.op = "host"
    /\ ~ret.ok
    /\ Len(players) = 2
    /\ players[1].is_host = None
    /\ players[2].is_host = Some(FALSE)

\* C2 as stated: available_seats and the held seats are disjoint and
\* their union is exactly the seats 1..12, whatever the seat columns hold.
C2_AsStated ==
    ret.op = "available_seats" =>
        /\ ret.val \cap HeldSeats = {}
        /\ ret.val \cup HeldSeats = AllSeats

\* C2 amended: available_seats is the seats 1..12 without the held seats,
\* so the two sets are disjoint and their union is 1..12 together with
\* every held seat outside 1..12; it is exactly 1..12 when every held seat
\* lies in 1..12.
C2_SeatPartition ==
    ret.op = "available_seats" =>
        /\ ret.val \cap HeldSeats = {}
        /\ ret.val \cup HeldSeats = AllSeats \cup HeldSeats
        /\ ret.val \subseteq AllSeats
        /\ (HeldSeats \subseteq AllSeats => ret.val \cup HeldSeats = AllSeats)

C2_Witness ==
    /\ ret.op = "available_seats"
    /\ Len(players) = 2
    /\ players[1].is_host = Some(TRUE) /\ players[1].seat = Some(2)
    /\ players[2].is_host = Some(FALSE) /\ players[2].seat = Some(SeatStop)
    /\ ret.val = AllSeats

\* C7: Room.is_full evaluates without error and is true exactly when
\* available_seats is empty.
C7_IsFull ==
    ret.op = "is_full" =>
        /\ ret.ok
        /\ (ret.val <=> available_seats(players) = {})

\* ------------------------------------------------------------ vote properties
\* one stored Vote of any vote_for, loaded and validated
InitVote ==
    /\ players = <<Player(Some(FALSE))>>
    /\ game = Game
    /\ votes \in {<<Vote(1, v, r)>> : v \in VoteValues \cup {None}, r \in RoundNames}
    /\ db = Session(players, game, votes)
    /\ ret = Called

NextVote == \E k \in 1 .. MaxVotes : validate(k)

SpecVote == InitVote /\ [][NextVote]_vars

\* C5: Vote.validate leaves an int vote_for between 1 and 12 as it is and
\* sets any other int vote_for to 0; no other column of the Vote, and no
\* other Vote, changes.
C5_ValidateClamps ==
    [][ret'.op = "validate" /\ ret'.ok =>
          LET k == ret'.arg
              v == votes[k].vote_for[1]
          IN votes' = [votes EXCEPT
                         ![k].vote_for = Some(IF 1 <= v /\ v <= 12 THEN v ELSE 0)]
      ]_vars

C5_Witness ==
    /\ ret.op = "validate" /\ ret.ok
    /\ db.votes[1].vote_for = Some(15)
    /\ votes[1].vote_for = Some(0)
    /\ votes[1].round = db.votes[1].round

\* C6: Vote.validate is idempotent: a second call right after the first
\* leaves vote_for as the first call left it.
C6_ValidateIdempotent ==
    [][ret.op = "validate" /\ ret'.op = "validate" /\ ret'.arg = ret.arg =>
          votes'[ret.arg].vote_for = votes[ret.arg].vote_for
      ]_vars

C6_Witness ==
    /\ ret.op = "validate" /\ ret.ok /\ ret.n = 2
    /\ db.votes[1].vote_for = Some(25)
    /\ votes[1].vote_for = Some(0)

\* ------------------------------------------------------- vote-right properties
\* Players join, sit down and die while the host opens and closes the vote
NextAllow ==
    \/ \E h \in HostValues : Join(h, TRUE)
    \/ \E i \in 1 .. MaxPlayers, s \in RoomSeatValues : SetSeat(i, s, TRUE)
    \/ \E i \in 1 .. MaxPlayers : Die(i, TRUE)
    \/ allow_votes
    \/ disable_votes

SpecAllow == Init /\ [][NextAllow]_vars

\* Player i of ps is a survivor: no host, on a seat, not dead
Survivor(ps, i) ==
    /\ ps[i].is_host # Some(TRUE)
    /\ ps[i].seat # None /\ ps[i].seat[1] # 0
    /\ ps[i].is_dead = FALSE

\* C9: allow_votes sets capable_for_vote to true and disable_votes sets it
\* to false on exactly the survivors at the time of the call; every other
\* Player keeps its capable_for_vote, and seat, is_dead, is_host, the Game
\* and the Votes are left as they were.
C9_VoteRightsFrame ==
    [][ret'.op \in {"allow_votes", "disable_votes"} =>
          /\ Len(players') = Len(players)
          /\ \A i \in 1 .. Len(players) :
                players'[i] =
                    IF Survivor(players, i)
                    THEN [players[i] EXCEPT
                            !.capable_for_vote = (ret'.op = "allow_votes")]
                    ELSE players[i]
          /\ game' = game
          /\ votes' = votes
      ]_vars

\* a Player who died after allow_votes is still capable after disable_votes
C9_Witness ==
    /\ ret.op = "disable_votes"
    /\ \E i \in 1 .. Len(players) :
          /\ players[i].is_dead /\ players[i].capable_for_vote
          /\ players[i].is_host = Some(FALSE) /\ players[i].seat = Some(1)
    /\ \E i \in 1 .. Len(players) : Survivor(players, i)

\* ------------------------------------------------------ vote-result properties
\* the choices cast in the room spec: the first and the last seat
ChoiceValues == {Some(SeatStart), Some(SeatStop - 1)}

\* Players join, sit down, change seats and vote; the host reads the
\* results of a round
NextResults ==
    \/ \E h \in {Some(FALSE), Some(TRUE)} : Join(h, TRUE)
    \/ \E i \in 1 .. MaxPlayers, s \in TableSeatValues : SetSeat(i, s, TRUE)
    \/ \E p \in 1 .. MaxPlayers, v \in ChoiceValues, r \in RoundNames :
          CastVote(p, v, r, TRUE)
    \/ \E r \in RoundNames : view_vote_results(r)

SpecResults == Init /\ [][NextResults]_vars

\* the seated Players of ps: no host, on a seat
Seated(ps) ==
    {i \in 1 .. Len(ps) :
        ps[i].is_host # Some(TRUE) /\ ps[i].seat # None /\ ps[i].seat[1] # 0}

\* the Votes of vs that Player p cast in round r
Cast(vs, p, r) == {k \in 1 .. Len(vs) : vs[k].player_id = p /\ vs[k].round = r}

\* the j-th seated Player of ps in list order
NthSeated(ps, j) ==
    CHOOSE p \in Seated(ps) : Cardinality({q \in Seated(ps) : q < p}) = j - 1

\* C8: when every seated Player has cast exactly one Vote in round R,
\* view_vote_results(R) returns one pair per seated Player, vote_for being
\* the choice stored on that Player's Vote for R and vote_from the seat
\* the Player holds when the results are read.
C8_ResultsPerSeatedPlayer ==
    (/\ ret.op = "view_vote_results"
     /\ \A p \in Seated(players) : Cardinality(Cast(votes, p, ret.arg)) = 1)
    => /\ ret.ok
       /\ Len(ret.val) = Cardinality(Seated(players))
       /\ \A j \in 1 .. Len(ret.val) :
             LET p == NthSeated(players, j)
                 k == CHOOSE k \in Cast(votes, p, ret.arg) : TRUE
             IN ret.val[j] = [vote_from |-> players[p].seat,
                              vote_for |-> votes[k].vote_for]

C8_Witness ==
    /\ ret.op = "view_vote_results" /\ ret.ok
    /\ Len(players) = 2 /\ Seated(players) = {1, 2}
    /\ players[1].seat # players[2].seat
    /\ Len(votes) = 2
    /\ votes[1].player_id = 2 /\ votes[2].player_id = 1
    /\ votes[1].round = ret.arg /\ votes[2].round = ret.arg
    /\ votes[1].vote_for # votes[2].vote_for
    /\ Len(ret.val) = 2

\* Players join, sit down, get the right to vote, die and vote in round1;
\* the host reads the results of a round
NextMissing ==
    \/ \E h \in {Some(FALSE), Some(TRUE)} : Join(h, TRUE)
    \/ \E i \in 1 .. MaxPlayers, s \in {None, Some(SeatStart)} : SetSeat(i, s, TRUE)
    \/ \E i \in 1 .. MaxPlayers : Die(i, TRUE)
    \/ allow_votes
    \/ \E p \in 1 .. MaxPlayers : CastVote(p, Some(SeatStart), "round1", TRUE)
    \/ \E r \in RoundNames : view_vote_results(r)

SpecMissing == Init /\ [][NextMissing]_vars

\* C10: view_vote_results(R) ends in an error, returning no list, whenever
\* some seated Player (dead or alive, capable_for_vote or not) has no Vote
\* for round R; the call changes no stored row and commits nothing.
C10_MissingVoteFails ==
    [][ret'.op = "view_vote_results" =>
          /\ UNCHANGED <<players, game, votes, db>>
          /\ (\E p \in Seated(players) : Cast(votes, p, ret'.arg) = {}) =>
                /\ ~ret'.ok
                /\ ret'.val = "AttributeError: 'NoneType' object has no attribute 'vote_from'"
      ]_vars

\* the results of round1 fail for a dead seated Player without a Vote, who
\* had the right to vote, though the other seated Player voted
C10_Witness ==
    /\ ret.op = "view_vote_results" /\ ret.arg = "round1" /\ ~ret.ok
    /\ Len(players) = 2 /\ Seated(players) = {1, 2}
    /\ players[2].is_dead /\ players[2].capable_for_vote
    /\ ~players[1].is_dead
    /\ Cast(votes, 1, "round1") # {}
    /\ Cast(votes, 2, "round1") = {}

\* ----------------------------------------------------------- commit properties
\* a vote_for beyond the last seat, for validate to change
BadChoice == Some(SeatStop + 2)

\* a Player joins, sits down (committed by the caller or left pending) and
\* votes; the host opens and closes the vote, names rounds and ends the
\* Game; a Vote is validated; the caller commits
NextCommit ==
    \/ Join(Some(FALSE), TRUE)
    \/ \E i \in 1 .. MaxPlayers, c \in BOOLEAN : SetSeat(i, Some(SeatStart), c)
    \/ CastVote(1, BadChoice, "round1", TRUE)
    \/ allow_votes
    \/ disable_votes
    \/ \E r \in RoundNames : set_round(r)
    \/ \E t \in 1 .. MaxTime : end(t)
    \/ \E k \in 1 .. MaxVotes : validate(k)
    \/ Commit

SpecCommit == Init /\ [][NextCommit]_vars

Mutators == {"allow_votes", "disable_votes", "set_round", "end", "validate"}

\* C3 as stated: when any mutating operation has returned, the committed
\* store equals the rows in memory.
C3_AsStated ==
    ret.op \in Mutators => db = Session(players, game, votes)

\* C3 amended: allow_votes, disable_votes and set_round commit, so when one
\* of them has returned the committed store equals the rows in memory,
\* earlier pending changes included; Game.end and Vote.validate commit
\* nothing and leave the committed store as it was.
C3_RoomMutatorsCommit ==
    [][/\ ret'.op \in {"allow_votes", "disable_votes", "set_round"} =>
            db' = Session(players', game', votes')
       /\ ret'.op \in {"end", "validate"} => db' = db
      ]_vars

\* set_round has committed what end and validate had left pending
C3_Witness ==
    /\ ret.op = "set_round"
    /\ db = Session(players, game, votes)
    /\ game.is_active = FALSE /\ game.current_round = PyStr("night1")
    /\ Len(votes) = 1 /\ votes[1].vote_for = Some(0)
    /\ Len(players) = 1 /\ players[1].capable_for_vote

\* C4 as stated: once the Game has ended, is_active stays false and
\* current_round stays at the value end() set.
C4_AsStated ==
    [][game.is_active = FALSE =>
          /\ game'.is_active = FALSE
          /\ game'.current_round = PyInt(EndedRound)
      ]_vars

\* C4 amended: once the Game has ended, is_active stays false and
\* finish_time stays set under every operation; current_round does not
\* stay: set_round replaces it and end() sets it to -1 again.
C4_EndedStaysInactive ==
    [][game.is_active = FALSE =>
          /\ game'.is_active = FALSE
          /\ game'.finish_time # None
          /\ (game'.current_round # game.current_round =>
                \/ ret'.op = "set_round" /\ game'.current_round = PyStr(ret'.arg)
                \/ ret'.op = "end" /\ game'.current_round = PyInt(EndedRound))
      ]_vars

\* an ended Game that set_round has given a round name
C4_Witness ==
    /\ ret.op = "set_round"
    /\ game.is_active = FALSE
    /\ game.finish_time # None
    /\ game.current_round = PyStr("night1")

====
